---- MODULE Spec2Model ----
(***************************************************************************)
(* Model of crates/next-core/src/loader_tree.rs: the LoaderTreeBuilder     *)
(* that walks a LoaderTree and produces the loader tree code, the import   *)
(* list, the inner assets (manifest) and the list of pages.                *)
(*                                                                         *)
(* Text is modelled as the sequence of fragments written by the write!,    *)
(* writeln! and += calls, one record per call; a formatted string keeps    *)
(* its interpolated values (identifier, module name, path) as fields.      *)
(* Option<T> is a sequence of length 0 (None) or 1 (Some).                 *)
(***************************************************************************)
EXTENDS Integers, Sequences, FiniteSets, TLC

\* Largest number of LoaderTree nodes of an input tree.
MaxNodes == 3

None == <<>>
Some(x) == <<x>>

(***************************************************************************)
(* Collaborators outside loader_tree.rs                                    *)
(***************************************************************************)

\* turbopack_ecmascript::utils::StringifyJs: a JSON string literal.
StringifyJs(str) == "\"" \o str \o "\""

\* turbopack_ecmascript::magic_identifier::mangle: reserved prefix and suffix
\* around the encoded tag.
mangle(tag) == "__TURBOPACK__" \o tag \o "__"

\* app_structure::get_metadata_route_name: a name computed from the item.
get_metadata_route_name(item) == "route(" \o item.path \o ")"

\* next_app::metadata::get_content_type: sniffed from the file.
get_content_type(path) == "type(" \o path \o ")"

\* A module handle: the transform that made it and what it was made from.
Module(via, source, name, page) ==
    [via |-> via, source |-> source, name |-> name, page |-> page]

\* module.ident().path().to_string()
ModulePath(module) == "[project]/" \o module.source

\* app_structure::Metadata::is_empty
MetadataIsEmpty(metadata) ==
    /\ metadata.icon = <<>>
    /\ metadata.apple = <<>>
    /\ metadata.twitter = <<>>
    /\ metadata.open_graph = <<>>
    /\ metadata.sitemap = None

\* IndexMap::insert: a new key is appended, an existing key keeps its place
\* and gets the new value.
IndexMapInsert(map, key, value) ==
    IF \E j \in 1..Len(map) : map[j].key = key
    THEN [j \in 1..Len(map) |->
            IF map[j].key = key THEN [key |-> key, value |-> value] ELSE map[j]]
    ELSE Append(map, [key |-> key, value |-> value])

(***************************************************************************)
(* Input trees                                                             *)
(***************************************************************************)

Root == 1

File(n, what) == "app/n" \o ToString(n) \o "/" \o what

\* MetadataWithAltItem::Static / ::Dynamic (MetadataItem has no alt_path).
Static(path, alt_path) == [kind |-> "Static", path |-> path, alt_path |-> alt_path]
Dynamic(path) == [kind |-> "Dynamic", path |-> path, alt_path |-> None]

MetadataOf(n, profile) ==
    [icon |->
        IF profile = "rich"
        THEN <<Dynamic(File(n, "icon.tsx")), Static(File(n, "icon2.png"), None)>>
        ELSE <<>>,
     apple |->
        IF profile = "rich"
        THEN <<Static(File(n, "apple-icon.png"), Some(File(n, "apple-icon.alt.txt")))>>
        ELSE <<>>,
     twitter |->
        CASE profile = "twitter" -> <<Dynamic(File(n, "twitter-image.tsx"))>>
          [] profile = "rich" ->
               <<Static(File(n, "twitter-image.png"), Some(File(n, "twitter-image.alt.txt"))),
                 Dynamic(File(n, "twitter-image2.tsx"))>>
          [] OTHER -> <<>>,
     open_graph |->
        IF profile = "rich"
        THEN <<Static(File(n, "opengraph-image.png"), None)>>
        ELSE <<>>,
     sitemap |-> IF profile = "rich" THEN Some(Dynamic(File(n, "sitemap.ts"))) ELSE None,
     base_page |-> IF profile = "twitter" THEN Some("/base" \o ToString(n)) ELSE None]

\* The kinds of node an input tree is built from: which slots carry a file,
\* and which metadata the node declares.
NodeKinds ==
    { [slots |-> {}, meta |-> "empty"],
      [slots |-> {"layout", "default", "not_found"}, meta |-> "twitter"],
      [slots |-> {"page", "default", "error", "global_error", "layout",
                  "loading", "template", "not_found"}, meta |-> "rich"] }

Slot(n, kind, slot, file) == IF slot \in kind.slots THEN Some(File(n, file)) ELSE None

ComponentsOf(n, kind) ==
    [page |-> Slot(n, kind, "page", "page.tsx"),
     default |-> Slot(n, kind, "default", "default.tsx"),
     error |-> Slot(n, kind, "error", "error.tsx"),
     global_error |-> Slot(n, kind, "global_error", "global-error.tsx"),
     layout |-> Slot(n, kind, "layout", "layout.tsx"),
     loading |-> Slot(n, kind, "loading", "loading.tsx"),
     template |-> Slot(n, kind, "template", "template.tsx"),
     not_found |-> Slot(n, kind, "not_found", "not-found.tsx"),
     metadata |-> MetadataOf(n, kind.meta)]

\* GlobalMetadata: favicon and manifest (robots is not read by the builder).
GlobalMetadatas ==
    { [favicon |-> None, manifest |-> None],
      [favicon |-> Some(Static("app/favicon.ico", None)),
       manifest |-> Some(Static("app/manifest.json", None))],
      [favicon |-> Some(Dynamic("app/favicon.tsx")), manifest |-> None],
      [favicon |-> None, manifest |-> Some(Dynamic("app/manifest.ts"))] }

RECURSIVE Ascending(_)
Ascending(S) ==
    IF S = {} THEN <<>>
    ELSE LET x == CHOOSE y \in S : \A z \in S : y <= z
         IN <<x>> \o Ascending(S \ {x})

Reverse(seq) == [j \in 1..Len(seq) |-> seq[Len(seq) + 1 - j]]

\* parallel_routes of node m: an IndexMap, here in its insertion order.
ParallelRoutesOf(m, n, parent, order) ==
    LET asc == Ascending({i \in 2..n : parent[i] = m})
        kids == IF order = "asc" THEN asc ELSE Reverse(asc)
    IN [j \in 1..Len(kids) |-> [key |-> "slot" \o ToString(kids[j]), child |-> kids[j]]]

Segment(m, parent) == IF m = Root THEN "" ELSE "seg" \o ToString(parent[m])

\* The input of a compilation, as the tree's producer describes it: how many
\* nodes, each node's parent, the insertion order of parallel routes, each
\* node's kind and the tree-wide global metadata.
Parents(n) == {p \in [2..n -> 1..n] : \A i \in 2..n : p[i] < i}

HasSiblings(n, parent) == \E i, j \in 2..n : i # j /\ parent[i] = parent[j]

Trees ==
    UNION { { [n |-> n, parent |-> parent, order |-> order, kinds |-> kinds,
               global |-> global] :
                parent \in Parents(n),
                order \in {"asc", "desc"},
                kinds \in [1..n -> NodeKinds], global \in GlobalMetadatas }
            : n \in 1..MaxNodes }

WellFormed(tree) == tree.order = "desc" => HasSiblings(tree.n, tree.parent)

\* loader_tree.await: the LoaderTree node m of the tree.
LoaderTree(tree, m) ==
    [page |-> "/n" \o ToString(m),
     segment |-> Segment(m, tree.parent),
     parallel_routes |-> ParallelRoutesOf(m, tree.n, tree.parent, tree.order),
     components |-> ComponentsOf(m, tree.kinds[m]),
     global_metadata |-> tree.global]

\* next.config.js' basePath, as given to LoaderTreeModule::build: both cases
\* for the trees below the largest size, none for the largest.
BasePaths(tree) == IF tree.n < MaxNodes THEN {None, Some("/docs")} ELSE {None}

\* The trees of the largest size all have a favicon and a manifest.
Inputs == {in \in Trees \X {None, Some("/docs")} :
             /\ WellFormed(in[1])
             /\ in[2] \in BasePaths(in[1])
             /\ in[1].n = MaxNodes =>
                   (in[1].global.favicon # None /\ in[1].global.manifest # None)}

(***************************************************************************)
(* LoaderTreeBuilder                                                       *)
(***************************************************************************)

GLOBAL_ERROR == "GLOBAL_ERROR_MODULE"

\* One write to loader_tree_code: the kind of fragment and its interpolated
\* values (name: a key or category, id: an identifier, a, b: other strings).
Tok(t, name, id, a, b) == [t |-> t, name |-> name, id |-> id, a |-> a, b |-> b]

\* A frame of walk_tree: its arguments, its locals and where it stands.
Frame(node, root) ==
    [node |-> node, root |-> root, pc |-> "enter", child |-> 1,
     temp_loader_tree_code |-> <<>>, components_code |-> <<>>]

\* LoaderTreeBuilder::new
new(base_path) ==
    [inner_assets |-> <<>>,
     counter |-> 0,
     imports |-> <<>>,
     loader_tree_code |-> <<>>,
     pages |-> <<>>,
     base_path |-> base_path,
     stack |-> <<>>,
     pc |-> "build"]

\* The builder kept as it is when build returns an error.
Retained(s, pc) ==
    IF pc = "failed" THEN s ELSE [new(s.base_path) EXCEPT !.pc = pc]

\* The builder after it was consumed (moved into the result, or dropped).
Consumed(s, pc) ==
    [new(s.base_path) EXCEPT !.pc = pc]

\* unique_number without `self.counter += 1`.
unique_number_stuck(s) ==
    [i |-> s.counter, s |-> s]

\* The numbers given out downwards from 99.
unique_number_downwards(s) ==
    [i |-> 99 - s.counter, s |-> [s EXCEPT !.counter = @ + 1]]

unique_number(s) ==
    [i |-> s.counter, s |-> [s EXCEPT !.counter = @ + 1]]

\* The write_component calls with the page written before the layout.
ComponentTypesPageFirst ==
    <<"Page", "Layout", "DefaultPage", "Error", "Loading", "Template", "NotFound">>

\* The order of the write_component calls of walk_tree.
ComponentTypes ==
    <<"Layout", "Page", "DefaultPage", "Error", "Loading", "Template", "NotFound">>

\* ComponentType::name
name(ty) ==
    CASE ty = "Page" -> "page"
      [] ty = "DefaultPage" -> "defaultPage"
      [] ty = "Error" -> "error"
      [] ty = "Layout" -> "layout"
      [] ty = "Loading" -> "loading"
      [] ty = "Template" -> "template"
      [] ty = "NotFound" -> "not-found"

\* The field of Components each write_component call of walk_tree is given.
ComponentOf(components, ty) ==
    CASE ty = "Layout" -> components.layout
      [] ty = "Page" -> components.page
      [] ty = "DefaultPage" -> components.default
      [] ty = "Error" -> components.error
      [] ty = "Loading" -> components.loading
      [] ty = "Template" -> components.template
      [] ty = "NotFound" -> components.not_found

\* format!("{name} #{i}")
Tag(tagname, i) == tagname \o " #" \o ToString(i)

\* The alt text tagged as its image is.
AltTagOfImage(tagname, i) == tagname \o " #" \o ToString(i)

\* format!("{name} alt text #{i}")
AltTag(tagname, i) == tagname \o " alt text #" \o ToString(i)

\* An import statement: its text around the identifier and the module name.
Import(head, identifier, module_id, tail) ==
    [head |-> head, identifier |-> identifier, module_id |-> module_id, tail |-> tail]

\* The module name made from the counter after its increment.
ComponentModuleIdNext(i) == "COMPONENT_" \o ToString(i + 1)

\* format!("COMPONENT_{i}")
ComponentModuleId(i) == "COMPONENT_" \o ToString(i)

\* format!("METADATA_{i}")
MetadataModuleId(i) == "METADATA_" \o ToString(i)

\* The alt text registered under the name of its image.
MetadataAltModuleIdOfImage(i) == "METADATA_" \o ToString(i)

\* The alt text given the number after that of its image.
MetadataAltModuleIdNext(i) == "METADATA_ALT_" \o ToString(i + 1)

\* format!("METADATA_ALT_{i}")
MetadataAltModuleId(i) == "METADATA_ALT_" \o ToString(i)

\* The default page collected as a page too.
IsPageOrDefault(ty) == ty \in {"Page", "DefaultPage"}

\* matches!(ty, ComponentType::Page)
IsPage(ty) == ty = "Page"

process_module(component) == Module("server_component_transition", component, "", "")

write_component(s, ty, component) ==
    IF component = None THEN s
    ELSE LET s1 == IF IsPage(ty)
                   THEN [s EXCEPT !.pages = Append(@, component[1])]
                   ELSE s
             u == unique_number(s1)
             i == u.i
             identifier == mangle(Tag(name(ty), i))
             module == process_module(component[1])
         IN [u.s EXCEPT
               !.loader_tree_code =
                   Append(@, Tok("component", StringifyJs(name(ty)), identifier,
                                 StringifyJs(ModulePath(module)), "")),
               !.imports =
                   Append(@, Import("import * as ", identifier,
                                    ComponentModuleId(i), "\";\n")),
               !.inner_assets =
                   IndexMapInsert(@, ComponentModuleId(i), module)]

helper_import ==
    Import("import { fillMetadataSegment } from \"next/dist/lib/metadata/get-metadata-route\"",
           "", "", "")

\* The helper import pushed for every static item.
push_helper_import_always(imports) == Append(imports, helper_import)

\* if !self.imports.contains(&helper_import) { self.imports.push(helper_import) }
push_helper_import(imports) ==
    IF \E j \in 1..Len(imports) : imports[j] = helper_import
    THEN imports
    ELSE Append(imports, helper_import)

\* Only openGraph images given a width and a height.
numeric_sizes_open_graph_only(category) == category = "openGraph"

\* let numeric_sizes = name == "twitter" || name == "openGraph";
numeric_sizes(category) == category = "twitter" \/ category = "openGraph"

write_static_metadata_item(s, app_page, category, item) ==
    LET u == unique_number(s)
        i == u.i
        identifier == mangle(Tag(category, i))
        inner_module_id == MetadataModuleId(i)
        imports1 == push_helper_import(s.imports)
        imports2 == Append(imports1, Import("import ", identifier, inner_module_id, "\";"))
        assets2 == IndexMapInsert(s.inner_assets, inner_module_id,
                                  Module("StructuredImageModuleType", item.path, "", ""))
        pathname_prefix == IF s.base_path # None
                           THEN s.base_path[1] \o "/" \o app_page
                           ELSE app_page
        metadata_route == get_metadata_route_name(item)
        code2 == s.loader_tree_code
                   \o <<Tok("static_open", "", "", "", ""),
                        Tok("url", "", identifier, StringifyJs(pathname_prefix),
                            StringifyJs(metadata_route))>>
                   \o (IF numeric_sizes(category)
                       THEN <<Tok("width", "", identifier, "", ""),
                              Tok("height", "", identifier, "", "")>>
                       ELSE <<Tok("sizes", "", identifier, "", "")>>)
                   \o <<Tok("type", "", "", get_content_type(item.path), "")>>
        alt_identifier == mangle(AltTag(category, i))
        alt_module_id == MetadataAltModuleId(i)
        hasAlt == item.alt_path # None
        imports3 == IF hasAlt
                    THEN Append(imports2, Import("import ", alt_identifier, alt_module_id, "\";"))
                    ELSE imports2
        assets3 == IF hasAlt
                   THEN IndexMapInsert(assets2, alt_module_id,
                                       Module("TextContentFileSource", item.alt_path[1], "", ""))
                   ELSE assets2
        code3 == code2
                   \o (IF hasAlt THEN <<Tok("alt", "", alt_identifier, "", "")>> ELSE <<>>)
                   \o <<Tok("static_close", "", "", "", "")>>
    IN [u.s EXCEPT !.imports = imports3,
                   !.inner_assets = assets3,
                   !.loader_tree_code = code3]

\* Every item written as a static one.
write_metadata_item_as_static(s, app_page, category, item) ==
    write_static_metadata_item(s, app_page, category, item)

write_metadata_item(s, app_page, category, item) ==
    IF item.kind = "Static"
    THEN write_static_metadata_item(s, app_page, category, item)
    ELSE LET u == unique_number(s)
             i == u.i
             identifier == mangle(Tag(category, i))
             inner_module_id == MetadataModuleId(i)
         IN [u.s EXCEPT
               !.imports = Append(@, Import("import ", identifier, inner_module_id, "\";")),
               !.inner_assets =
                   IndexMapInsert(@, inner_module_id,
                                  Module("dynamic_image_metadata_source", item.path,
                                         category, app_page)),
               !.loader_tree_code = Append(@, Tok("dynamic", "", identifier, "", ""))]

\* for item in it { self.write_metadata_item(...) }: the builder after each
\* item is bound to its value (s1) before the next item is written.
RECURSIVE ForEachItem(_, _, _, _)
ForEachItem(s, app_page, category, it) ==
    IF it = <<>> THEN s
    ELSE CHOOSE r \in
             {ForEachItem(s1, app_page, category, Tail(it)) :
                 s1 \in {write_metadata_item(s, app_page, category, Head(it))}} : TRUE

\* The array written for an empty list too.
write_metadata_items_always(s, app_page, category, it) ==
    LET s1 == [s EXCEPT !.loader_tree_code =
                  Append(@, Tok("items_open", category, "", "", ""))]
        s2 == ForEachItem(s1, app_page, category, it)
    IN [s2 EXCEPT !.loader_tree_code =
           Append(@, Tok("items_close", "", "", "", ""))]

write_metadata_items(s, app_page, category, it) ==
    IF it = <<>> THEN s
    ELSE LET s1 == [s EXCEPT !.loader_tree_code =
                        Append(@, Tok("items_open", category, "", "", ""))]
             s2 == ForEachItem(s1, app_page, category, it)
         IN [s2 EXCEPT !.loader_tree_code =
                Append(@, Tok("items_close", "", "", "", ""))]

write_metadata_manifest(s, manifest) ==
    IF manifest = None THEN s
    ELSE LET manifest_route == "/" \o get_metadata_route_name(manifest[1])
         IN [s EXCEPT !.loader_tree_code =
                Append(@, Tok("manifest", "", "", StringifyJs(manifest_route), ""))]

\* The favicon put after the segment's own icons.
IconsWithFaviconLast(icon, global_metadata) ==
    IF global_metadata # None /\ global_metadata[1].favicon # None
    THEN LET favicon == global_metadata[1].favicon[1]
             item == IF favicon.kind = "Static"
                     THEN Static(favicon.path, None)
                     ELSE Dynamic(favicon.path)
         IN icon \o <<item>>
    ELSE icon

\* The icon list write_metadata iterates: the favicon first when there is one.
IconsWithFavicon(icon, global_metadata) ==
    IF global_metadata # None /\ global_metadata[1].favicon # None
    THEN LET favicon == global_metadata[1].favicon[1]
             item == IF favicon.kind = "Static"
                     THEN Static(favicon.path, None)
                     ELSE Dynamic(favicon.path)
         IN <<item>> \o icon
    ELSE icon

\* write_metadata without the return on an empty Metadata.
write_metadata_unconditional(s, app_page, metadata, global_metadata) ==
    LET page == IF metadata.base_page # None THEN metadata.base_page[1] ELSE app_page
        s0 == [s EXCEPT !.loader_tree_code =
                  Append(@, Tok("metadata_open", "", "", "", ""))]
        icon == IconsWithFavicon(metadata.icon, global_metadata)
        s1 == write_metadata_items(s0, page, "icon", icon)
        s2 == write_metadata_items(s1, page, "apple", metadata.apple)
        s3 == write_metadata_items(s2, page, "twitter", metadata.twitter)
        s4 == write_metadata_items(s3, page, "openGraph", metadata.open_graph)
        s5 == IF global_metadata # None
              THEN write_metadata_manifest(s4, global_metadata[1].manifest)
              ELSE s4
    IN [s5 EXCEPT !.loader_tree_code =
           Append(@, Tok("metadata_close", "", "", "", ""))]

\* global_metadata: Option<&GlobalMetadata>
write_metadata(s, app_page, metadata, global_metadata) ==
    IF MetadataIsEmpty(metadata) THEN s
    ELSE LET page == IF metadata.base_page # None THEN metadata.base_page[1] ELSE app_page
             s0 == [s EXCEPT !.loader_tree_code =
                       Append(@, Tok("metadata_open", "", "", "", ""))]
             icon == IconsWithFavicon(metadata.icon, global_metadata)
         \* The writes in the order s1 (icon), s2 (apple), s3 (twitter),
         \* s4 (openGraph), s5 (manifest), each bound to the builder it leaves.
         IN CHOOSE r \in
              {[s5 EXCEPT !.loader_tree_code =
                   Append(@, Tok("metadata_close", "", "", "", ""))] :
               s5 \in {IF global_metadata # None
                       THEN write_metadata_manifest(s4, global_metadata[1].manifest)
                       ELSE s4 :
               s4 \in {write_metadata_items(s3, page, "openGraph", metadata.open_graph) :
               s3 \in {write_metadata_items(s2, page, "twitter", metadata.twitter) :
               s2 \in {write_metadata_items(s1, page, "apple", metadata.apple) :
               s1 \in {write_metadata_items(s0, page, "icon", icon)}}}}}} : TRUE

(***************************************************************************)
(* The compilations: LoaderTreeModule::build on a tree, each with a        *)
(* builder of its own                                                      *)
(***************************************************************************)

VARIABLES
    loader_tree,   \* per compilation: the input tree
    builder,       \* per compilation: the LoaderTreeBuilder and its walk_tree frames
    result         \* per compilation: what LoaderTreeModule::build returned

vars == <<loader_tree, builder, result>>

Pending == [status |-> "pending", imports |-> <<>>, loader_tree_code |-> <<>>,
            inner_assets |-> <<>>, pages |-> <<>>]

\* Ok(LoaderTreeModule { imports, loader_tree_code, inner_assets, pages })
LoaderTreeModule(s) ==
    [status |-> "ok", imports |-> s.imports, loader_tree_code |-> s.loader_tree_code,
     inner_assets |-> s.inner_assets, pages |-> s.pages]

\* Err(e): the error of the await that failed, and nothing of the builder.
Err(e) == [status |-> "err", error |-> e, imports |-> <<>>, loader_tree_code |-> <<>>,
           inner_assets |-> <<>>, pages |-> <<>>]

Top(s) == s.stack[Len(s.stack)]

SetTop(s, frame) == [s EXCEPT !.stack[Len(s.stack)] = frame]

\* The counter kept in one place for all builders.
SetSharedCounter(c, s) ==
    builder' = [d \in DOMAIN builder |->
                  IF d = c THEN s ELSE [builder[d] EXCEPT !.counter = s.counter]]

\* The list of pages kept in one place for all builders.
SetSharedPages(c, s) ==
    builder' = [d \in DOMAIN builder |->
                  IF d = c THEN s ELSE [builder[d] EXCEPT !.pages = s.pages]]

Set(c, s) == builder' = [builder EXCEPT ![c] = s]

InitFor(compilations) ==
    \E in \in [compilations -> Inputs] :
        /\ loader_tree = [c \in compilations |-> in[c][1]]
        /\ builder = [c \in compilations |-> new(in[c][2])]
        /\ result = [c \in compilations |-> Pending]

Init == InitFor({1})

\* build without the registration of the global error.
build_without_global_error(s, tree) ==
    [s EXCEPT !.stack = <<Frame(Root, TRUE)>>, !.pc = "walk"]

\* build, before the walk: the global error of the root's components, then
\* the call walk_tree(loader_tree, true).
build(s, tree) ==
    LET components == LoaderTree(tree, Root).components
        s1 == IF components.global_error # None
              THEN [s EXCEPT !.inner_assets =
                      IndexMapInsert(@, GLOBAL_ERROR,
                                     process_module(components.global_error[1]))]
              ELSE s
    IN [s1 EXCEPT !.stack = <<Frame(Root, TRUE)>>, !.pc = "walk"]

Build(c) ==
    /\ builder[c].pc = "build"
    /\ Set(c, build(builder[c], loader_tree[c]))
    /\ UNCHANGED <<loader_tree, result>>

Walking(c) == builder[c].pc = "walk" /\ builder[c].stack # <<>>

\* walk_tree: the opening line, then the buffer is taken.
walk_tree_enter(s, tree) ==
    LET f == Top(s)
        s1 == [s EXCEPT !.loader_tree_code =
                  Append(@, Tok("open", StringifyJs(LoaderTree(tree, f.node).segment), "", "", ""))]
    IN SetTop([s1 EXCEPT !.loader_tree_code = <<>>],
              [f EXCEPT !.temp_loader_tree_code = s1.loader_tree_code,
                        !.pc = "components"])

WalkTreeEnter(c) ==
    /\ Walking(c)
    /\ Top(builder[c]).pc = "enter"
    /\ Set(c, walk_tree_enter(builder[c], loader_tree[c]))
    /\ UNCHANGED <<loader_tree, result>>

\* The write_component calls in the order of ComponentTypes, the builder
\* after each call bound to its value (s1) before the next call.
RECURSIVE WriteComponents(_, _, _)
WriteComponents(s, components, k) ==
    IF k > Len(ComponentTypes) THEN s
    ELSE CHOOSE r \in
             {WriteComponents(s1, components, k + 1) :
                 s1 \in {write_component(s, ComponentTypes[k],
                                         ComponentOf(components, ComponentTypes[k]))}} : TRUE

\* walk_tree: its seven write_component calls, into the emptied buffer.
walk_tree_components(s, tree) ==
    LET f == Top(s)
    IN CHOOSE r \in
           {SetTop(s1, [f EXCEPT !.pc = "restore"]) :
               s1 \in {WriteComponents(s, components, 1) :
                   components \in {LoaderTree(tree, f.node).components}}} : TRUE

WalkTreeComponents(c) ==
    /\ Walking(c)
    /\ Top(builder[c]).pc = "components"
    /\ Set(c, walk_tree_components(builder[c], loader_tree[c]))
    /\ UNCHANGED <<loader_tree, result>>

\* The components left in the main buffer, before the children.
walk_tree_restore_in_place(s) ==
    LET f == Top(s)
    IN SetTop([s EXCEPT !.loader_tree_code = f.temp_loader_tree_code \o s.loader_tree_code],
              [f EXCEPT !.components_code = <<>>,
                        !.temp_loader_tree_code = <<>>,
                        !.pc = "children"])

\* The buffer put back without keeping what the components wrote.
walk_tree_restore_dropping(s) ==
    LET f == Top(s)
    IN SetTop([s EXCEPT !.loader_tree_code = f.temp_loader_tree_code],
              [f EXCEPT !.components_code = <<>>,
                        !.temp_loader_tree_code = <<>>,
                        !.pc = "children"])

\* walk_tree: components_code = replace(&mut self.loader_tree_code, temp)
walk_tree_restore(s) ==
    LET f == Top(s)
    IN SetTop([s EXCEPT !.loader_tree_code = f.temp_loader_tree_code],
              [f EXCEPT !.components_code = s.loader_tree_code,
                        !.temp_loader_tree_code = <<>>,
                        !.pc = "children"])

WalkTreeRestore(c) ==
    /\ Walking(c)
    /\ Top(builder[c]).pc = "restore"
    /\ Set(c, walk_tree_restore(builder[c]))
    /\ UNCHANGED <<loader_tree, result>>

\* The routes iterated in sorted order.
ParallelRoutesSorted(parallel_routes) ==
    LET kids == Ascending({parallel_routes[j].child : j \in 1..Len(parallel_routes)})
    IN [j \in 1..Len(kids) |->
          parallel_routes[CHOOSE i \in 1..Len(parallel_routes) :
                              parallel_routes[i].child = kids[j]]]

\* parallel_routes.iter(): the routes in the order the IndexMap stores them.
ParallelRoutesIter(parallel_routes) == parallel_routes

\* walk_tree: the next parallel route: its key, then the recursive call.
walk_tree_child(s, tree) ==
    LET f == Top(s)
        route == ParallelRoutesIter(LoaderTree(tree, f.node).parallel_routes)[f.child]
        s1 == [s EXCEPT !.loader_tree_code =
                  Append(@, Tok("key", StringifyJs(route.key), "", "", ""))]
    IN [s1 EXCEPT !.stack = Append(SetTop(s1, [f EXCEPT !.pc = "returned"]).stack,
                                   Frame(route.child, FALSE))]

WalkTreeChild(c) ==
    /\ Walking(c)
    /\ Top(builder[c]).pc = "children"
    /\ Top(builder[c]).child <= Len(LoaderTree(loader_tree[c], Top(builder[c]).node).parallel_routes)
    /\ Set(c, walk_tree_child(builder[c], loader_tree[c]))
    /\ UNCHANGED <<loader_tree, result>>

\* The route after the next one taken up when a recursive call returned.
walk_tree_child_returned_skipping(s) ==
    LET f == Top(s)
    IN SetTop([s EXCEPT !.loader_tree_code = Append(@, Tok("sep", "", "", "", ""))],
              [f EXCEPT !.child = @ + 2, !.pc = "children"])

\* walk_tree: after the recursive call returned, the "," and the next route.
walk_tree_child_returned(s) ==
    LET f == Top(s)
    IN SetTop([s EXCEPT !.loader_tree_code = Append(@, Tok("sep", "", "", "", ""))],
              [f EXCEPT !.child = @ + 1, !.pc = "children"])

WalkTreeChildReturned(c) ==
    /\ Walking(c)
    /\ Top(builder[c]).pc = "returned"
    /\ Set(c, walk_tree_child_returned(builder[c]))
    /\ UNCHANGED <<loader_tree, result>>

\* The slots object left out for a node without components.
walk_tree_slots_unless_empty(s) ==
    LET f == Top(s)
    IN SetTop([s EXCEPT !.loader_tree_code =
                  IF f.components_code = <<>>
                  THEN @
                  ELSE Append(@, Tok("slots", "", "", "", "")) \o f.components_code],
              [f EXCEPT !.pc = "metadata"])

\* walk_tree: the end of the children object, then the components' code.
walk_tree_slots(s) ==
    LET f == Top(s)
    IN SetTop([s EXCEPT !.loader_tree_code =
                  Append(@, Tok("slots", "", "", "", "")) \o f.components_code],
              [f EXCEPT !.pc = "metadata"])

WalkTreeSlots(c) ==
    /\ Walking(c)
    /\ Top(builder[c]).pc = "children"
    /\ Top(builder[c]).child > Len(LoaderTree(loader_tree[c], Top(builder[c]).node).parallel_routes)
    /\ Set(c, walk_tree_slots(builder[c]))
    /\ UNCHANGED <<loader_tree, result>>

\* The global metadata handed to every segment.
GlobalMetadataAlways(root, global_metadata) == Some(global_metadata)

\* if root { Some(global_metadata) } else { None }
GlobalMetadataArg(root, global_metadata) ==
    IF root THEN Some(global_metadata) ELSE None

\* walk_tree: write_metadata, with the global metadata only at the root.
walk_tree_metadata(s, tree) ==
    LET f == Top(s)
    IN CHOOSE r \in
           {SetTop(s1, [f EXCEPT !.pc = "close"]) :
               s1 \in {write_metadata(s, node.page, node.components.metadata,
                                      GlobalMetadataArg(f.root, node.global_metadata)) :
                   node \in {LoaderTree(tree, f.node)}}} : TRUE

WalkTreeMetadata(c) ==
    /\ Walking(c)
    /\ Top(builder[c]).pc = "metadata"
    /\ Set(c, walk_tree_metadata(builder[c], loader_tree[c]))
    /\ UNCHANGED <<loader_tree, result>>

\* walk_tree: the closing "}]" and the return to the caller.
walk_tree_return(s) ==
    [s EXCEPT !.loader_tree_code = Append(@, Tok("close", "", "", "", "")),
              !.stack = SubSeq(@, 1, Len(@) - 1)]

WalkTreeReturn(c) ==
    /\ Walking(c)
    /\ Top(builder[c]).pc = "close"
    /\ Set(c, walk_tree_return(builder[c]))
    /\ UNCHANGED <<loader_tree, result>>

\* build, after the walk: the builder's fields move into the LoaderTreeModule.
BuildFinish(c) ==
    /\ builder[c].pc = "walk"
    /\ builder[c].stack = <<>>
    /\ result' = [result EXCEPT ![c] = LoaderTreeModule(builder[c])]
    /\ Set(c, Consumed(builder[c], "done"))
    /\ UNCHANGED loader_tree

\* Whether the step the compilation stands before awaits a collaborator that
\* may fail: reading the tree and its components, the path of a component's
\* module, the global metadata and the metadata's route names and types.
CanFail(s, tree) ==
    \/ s.pc = "build"
    \/ /\ s.pc = "walk"
       /\ s.stack # <<>>
       /\ LET f == Top(s)
          IN f.pc \in {"enter", "components", "metadata"}

\* The await the compilation stands before: that of build, or the step of
\* the running walk_tree call.
FailedAwait(s) == IF s.pc = "build" THEN "build" ELSE Top(s).pc

\* An await returned an error: `?` propagates it out of build, which drops
\* the builder.
Fail(c) ==
    /\ CanFail(builder[c], loader_tree[c])
    /\ result' = [result EXCEPT ![c] = Err(FailedAwait(builder[c]))]
    /\ Set(c, Consumed(builder[c], "failed"))
    /\ UNCHANGED loader_tree

Next ==
    \/ \E c \in DOMAIN builder : Build(c)
    \/ \E c \in DOMAIN builder : WalkTreeEnter(c)
    \/ \E c \in DOMAIN builder : WalkTreeComponents(c)
    \/ \E c \in DOMAIN builder : WalkTreeRestore(c)
    \/ \E c \in DOMAIN builder : WalkTreeChild(c)
    \/ \E c \in DOMAIN builder : WalkTreeChildReturned(c)
    \/ \E c \in DOMAIN builder : WalkTreeSlots(c)
    \/ \E c \in DOMAIN builder : WalkTreeMetadata(c)
    \/ \E c \in DOMAIN builder : WalkTreeReturn(c)
    \/ \E c \in DOMAIN builder : BuildFinish(c)
    \/ \E c \in DOMAIN builder : Fail(c)

Spec == Init /\ [][Next]_vars

\* The steps of a compilation all of whose awaits succeed.
NextSucceeding ==
    \/ \E c \in DOMAIN builder : Build(c)
    \/ \E c \in DOMAIN builder : WalkTreeEnter(c)
    \/ \E c \in DOMAIN builder : WalkTreeComponents(c)
    \/ \E c \in DOMAIN builder : WalkTreeRestore(c)
    \/ \E c \in DOMAIN builder : WalkTreeChild(c)
    \/ \E c \in DOMAIN builder : WalkTreeChildReturned(c)
    \/ \E c \in DOMAIN builder : WalkTreeSlots(c)
    \/ \E c \in DOMAIN builder : WalkTreeMetadata(c)
    \/ \E c \in DOMAIN builder : WalkTreeReturn(c)
    \/ \E c \in DOMAIN builder : BuildFinish(c)

\* A compilation whose awaits all succeed and whose future is polled until
\* it is ready.
SpecSucceeding == Init /\ [][NextSucceeding]_vars /\ WF_vars(NextSucceeding)

\* Largest number of LoaderTree nodes of two trees compiled side by side.
MaxPairNodes == 3

\* The inputs of two compilations in one process: trees with the static
\* favicon and manifest whose segments all have files and metadata, a
\* single segment compiled under a basePath.
PairInputs ==
    {in \in Inputs :
        /\ in[1].n < MaxPairNodes
        /\ in[1].global.favicon # None /\ in[1].global.manifest # None
        /\ \A m \in 1..in[1].n : in[1].kinds[m].slots # {}
        /\ in[2] = None <=> in[1].n > 1}

\* Two calls of LoaderTreeModule::build, each with a builder of its own: on
\* the same input, or on two inputs of bounded size together.
InitPair ==
    \E in \in [{1, 2} -> PairInputs] :
        /\ in[1] = in[2] \/ in[1][1].n + in[2][1].n <= MaxPairNodes
        /\ loader_tree = [c \in {1, 2} |-> in[c][1]]
        /\ builder = [c \in {1, 2} |-> new(in[c][2])]
        /\ result = [c \in {1, 2} |-> Pending]

\* The steps of the two compilations interleave at their awaits.
SpecPair == InitPair /\ [][Next]_vars

(***************************************************************************)
(* Reading a tree and an output                                            *)
(***************************************************************************)

\* What a compilation has produced: the module it returned, or else what
\* its builder holds.
Done(c) == result[c].status = "ok"

Output(c) == IF Done(c) THEN result[c] ELSE builder[c]

RECURSIVE Preorder(_, _), PreorderRoutes(_, _, _)
Preorder(tree, m) ==
    <<m>> \o PreorderRoutes(tree, LoaderTree(tree, m).parallel_routes, 1)
PreorderRoutes(tree, routes, j) ==
    IF j > Len(routes) THEN <<>>
    ELSE Preorder(tree, routes[j].child) \o PreorderRoutes(tree, routes, j + 1)

RECURSIVE Postorder(_, _), PostorderRoutes(_, _, _)
Postorder(tree, m) ==
    PostorderRoutes(tree, LoaderTree(tree, m).parallel_routes, 1) \o <<m>>
PostorderRoutes(tree, routes, j) ==
    IF j > Len(routes) THEN <<>>
    ELSE Postorder(tree, routes[j].child) \o PostorderRoutes(tree, routes, j + 1)

\* The key under which the parent of the non-root node m stores it.
KeyOf(tree, m) ==
    LET routes == LoaderTree(tree, tree.parent[m]).parallel_routes
    IN routes[CHOOSE j \in 1..Len(routes) : routes[j].child = m].key

RECURSIVE Flatten(_)
Flatten(seqs) == IF seqs = <<>> THEN <<>> ELSE Head(seqs) \o Flatten(Tail(seqs))

Positions(code, kinds) == {j \in 1..Len(code) : code[j].t \in kinds}

Count(code, kinds) == Cardinality(Positions(code, kinds))

\* How many segment literals are open at fragment j.
Depth(code, j) ==
    Count(SubSeq(code, 1, j - 1), {"open"}) - Count(SubSeq(code, 1, j - 1), {"close"})

IsAltImport(imports, imp) ==
    \E k \in 0..Len(imports) : imp.module_id = MetadataAltModuleId(k)

\* The imports that were given a number of their own, in order.
NumberedImports(imports) ==
    SelectSeq(imports, LAMBDA imp : imp # helper_import /\ ~IsAltImport(imports, imp))

TagNames ==
    {name(ComponentTypes[k]) : k \in 1..Len(ComponentTypes)}
        \cup {"icon", "apple", "twitter", "openGraph"}

PresentSlots(components) ==
    {k \in 1..Len(ComponentTypes) : ComponentOf(components, ComponentTypes[k]) # None}

RECURSIVE ComponentSlotsPresent(_, _)
ComponentSlotsPresent(tree, m) ==
    IF m > tree.n THEN 0
    ELSE Cardinality(PresentSlots(LoaderTree(tree, m).components))
            + ComponentSlotsPresent(tree, m + 1)

(***************************************************************************)
(* C1                                                                      *)
(***************************************************************************)

\* C1: within one compilation no two generated identifiers are equal: the
\* identifiers bound by the imports (the mangled tags of components, of
\* metadata items and of alt texts) are pairwise distinct, at every moment
\* of the walk and in the returned module.
C1_IdentifiersDistinct ==
    \A c \in DOMAIN builder :
        LET imports == Output(c).imports
        IN \A i, j \in 1..Len(imports) :
              (i # j /\ imports[i] # helper_import /\ imports[j] # helper_import)
                  => imports[i].identifier # imports[j].identifier

\* An alt text that shares its number with its image, and two layout slots
\* of different segments, in one returned module.
C1_Witness ==
    \E c \in DOMAIN builder :
        /\ Done(c)
        /\ LET imports == result[c].imports
               ids == {imports[j].identifier : j \in 1..Len(imports)}
           IN /\ \E k \in 0..Len(imports) :
                    /\ mangle(Tag("twitter", k)) \in ids
                    /\ mangle(AltTag("twitter", k)) \in ids
              /\ \E i, j \in 0..Len(imports) :
                    /\ i # j
                    /\ mangle(Tag("layout", i)) \in ids
                    /\ mangle(Tag("layout", j)) \in ids

(***************************************************************************)
(* C2                                                                      *)
(***************************************************************************)

C2_Allocated(c) ==
    LET s == builder[c]
        numbered == NumberedImports(s.imports)
    IN s.pc = "walk" =>
         /\ Len(numbered) = s.counter
         /\ \A k \in 1..Len(numbered) :
               /\ numbered[k].module_id \in {ComponentModuleId(k - 1), MetadataModuleId(k - 1)}
               /\ numbered[k].identifier \in {mangle(Tag(nm, k - 1)) : nm \in TagNames}
         /\ s.stack = <<>> =>
               s.counter = ComponentSlotsPresent(loader_tree[c], 1)
                             + Count(s.loader_tree_code, {"dynamic", "static_open"})

\* C2: the k-th call of unique_number returns k - 1 (the numbered imports
\* carry 0, 1, ..., counter - 1 in this order, whichever emission site made
\* them), the counter never decreases during the walk, and when the walk has
\* returned the counter is the number of component slots present plus the
\* number of metadata items emitted.
C2_Counter ==
    /\ [](\A c \in DOMAIN builder : C2_Allocated(c))
    /\ [][\A c \in DOMAIN builder :
            builder'[c].pc = "walk" => builder'[c].counter >= builder[c].counter]_vars

\* The walk has returned, having numbered components, a static and a dynamic
\* item.
C2_Witness ==
    \E c \in DOMAIN builder :
        /\ builder[c].pc = "walk" /\ builder[c].stack = <<>>
        /\ Count(builder[c].loader_tree_code, {"component"}) >= 2
        /\ Count(builder[c].loader_tree_code, {"dynamic"}) >= 1
        /\ Count(builder[c].loader_tree_code, {"static_open"}) >= 1
        /\ Count(builder[c].loader_tree_code, {"alt"}) >= 1

(***************************************************************************)
(* C3                                                                      *)
(***************************************************************************)

\* How many numbers the allocator has returned.
Allocated(c) ==
    IF Done(c) THEN Len(NumberedImports(result[c].imports)) ELSE builder[c].counter

\* C3 as stated: every manifest entry name is SLOT_<n>, n an allocated number.
C3_AsStated ==
    \A c \in DOMAIN builder :
        LET assets == Output(c).inner_assets
        IN \A j \in 1..Len(assets) :
              \E n \in 0..(Allocated(c) - 1) : assets[j].key = "SLOT_" \o ToString(n)

\* C3, amended: every manifest entry name is COMPONENT_<n> (a component),
\* METADATA_<n> (a metadata item) or METADATA_ALT_<n> (an alt text), n a
\* number the allocator returned, or the reserved name GLOBAL_ERROR_MODULE.
C3_ManifestNames ==
    \A c \in DOMAIN builder :
        LET assets == Output(c).inner_assets
        IN \A j \in 1..Len(assets) :
              \/ assets[j].key = "GLOBAL_ERROR_MODULE"
              \/ \E n \in 0..(Allocated(c) - 1) :
                    \/ /\ assets[j].key = "COMPONENT_" \o ToString(n)
                       /\ assets[j].value.via = "server_component_transition"
                    \/ /\ assets[j].key = "METADATA_" \o ToString(n)
                       /\ assets[j].value.via \in {"StructuredImageModuleType",
                                                   "dynamic_image_metadata_source"}
                    \/ /\ assets[j].key = "METADATA_ALT_" \o ToString(n)
                       /\ assets[j].value.via = "TextContentFileSource"

\* A returned manifest with entries of all four kinds.
C3_Witness ==
    \E c \in DOMAIN builder :
        /\ Done(c)
        /\ LET keys == {result[c].inner_assets[j].key : j \in 1..Len(result[c].inner_assets)}
           IN /\ "GLOBAL_ERROR_MODULE" \in keys
              /\ "COMPONENT_0" \in keys
              /\ \E n \in 0..Allocated(c) :
                    /\ ("METADATA_" \o ToString(n)) \in keys
                    /\ ("METADATA_ALT_" \o ToString(n)) \in keys

(***************************************************************************)
(* C4                                                                      *)
(***************************************************************************)

\* C4: after every step of the walk and in the returned module, every import
\* other than the fillMetadataSegment helper names a key of the manifest,
\* every manifest key other than GLOBAL_ERROR_MODULE is named by exactly one
\* import, and no insertion replaced an entry: the manifest holds one entry
\* per such import, plus the global error's.
C4_ImportsMatchManifest ==
    \A c \in DOMAIN builder :
        LET imports == Output(c).imports
            assets == Output(c).inner_assets
            naming == {j \in 1..Len(imports) : imports[j] # helper_import}
            keyed == {e \in 1..Len(assets) : assets[e].key # GLOBAL_ERROR}
        IN /\ \A j \in naming : \E e \in 1..Len(assets) : assets[e].key = imports[j].module_id
           /\ \A e \in keyed :
                 Cardinality({j \in naming : imports[j].module_id = assets[e].key}) = 1
           /\ \A e, g \in 1..Len(assets) : e # g => assets[e].key # assets[g].key
           /\ Cardinality(keyed) = Cardinality(naming)

\* A returned module with the global error, the helper import, a component,
\* a metadata item and an alt text.
C4_Witness ==
    \E c \in DOMAIN builder :
        /\ Done(c)
        /\ \E e \in 1..Len(result[c].inner_assets) :
              result[c].inner_assets[e].key = GLOBAL_ERROR
        /\ \E j \in 1..Len(result[c].imports) : result[c].imports[j] = helper_import
        /\ \E j \in 1..Len(result[c].imports) :
              IsAltImport(result[c].imports, result[c].imports[j])
        /\ Count(result[c].loader_tree_code, {"component"}) >= 1

(***************************************************************************)
(* C5                                                                      *)
(***************************************************************************)

\* The page slots of the tree, in depth-first pre-order.
PagesInPreorder(tree) ==
    LET order == Preorder(tree, Root)
    IN Flatten([j \in 1..Len(order) |-> LoaderTree(tree, order[j]).components.page])

\* C5: the pages of a returned module are the page slots of the tree, one
\* entry each and none for any other slot, in depth-first pre-order (a
\* segment before its descendants, an earlier parallel route before a later).
C5_PagesPreorder ==
    \A c \in DOMAIN builder :
        Done(c) => result[c].pages = PagesInPreorder(loader_tree[c])

\* A returned module of a tree whose root has a page and whose two parallel
\* routes, stored in descending order, have one with a page and one with a
\* default page only.
C5_Witness ==
    \E c \in DOMAIN builder :
        LET tree == loader_tree[c]
        IN /\ Done(c)
           /\ tree.n = 3 /\ tree.order = "desc"
           /\ Len(result[c].pages) = 2
           /\ "page" \in tree.kinds[1].slots
           /\ "page" \in tree.kinds[2].slots
           /\ "page" \notin tree.kinds[3].slots /\ "default" \in tree.kinds[3].slots

(***************************************************************************)
(* C6, C7                                                                  *)
(***************************************************************************)

\* The identifiers bound to a module made from the global favicon.
FaviconIdentifiers(out, tree) ==
    IF tree.global.favicon = None THEN {}
    ELSE {out.imports[j].identifier : j \in
            {j \in 1..Len(out.imports) :
                \E e \in 1..Len(out.inner_assets) :
                    /\ out.inner_assets[e].key = out.imports[j].module_id
                    /\ out.inner_assets[e].value.source = tree.global.favicon[1].path}}

\* The array entries of the text that refer to the favicon.
FaviconEntries(out, tree) ==
    {j \in Positions(out.loader_tree_code, {"dynamic", "url"}) :
        out.loader_tree_code[j].id \in FaviconIdentifiers(out, tree)}

\* C6: in the returned text the manifest field and the favicon entry appear
\* only in the root's own slots object (one literal deep), never in that of
\* any other segment, and at most once each.
C6_GlobalMetadataRootOnly ==
    \A c \in DOMAIN builder :
        Done(c) =>
            LET code == result[c].loader_tree_code
                favicons == FaviconEntries(result[c], loader_tree[c])
                manifests == Positions(code, {"manifest"})
            IN /\ \A j \in favicons \cup manifests : Depth(code, j) = 1
               /\ Cardinality(favicons) <= 1
               /\ Cardinality(manifests) <= 1

\* A returned text with the manifest field and the favicon entry, of a tree
\* whose non-root segments have metadata of their own and reference the same
\* global metadata.
C6_Witness ==
    \E c \in DOMAIN builder :
        LET tree == loader_tree[c]
        IN /\ Done(c)
           /\ tree.n >= 2
           /\ \A m \in 2..tree.n : tree.kinds[m].meta # "empty"
           /\ Cardinality(FaviconEntries(result[c], tree)) = 1
           /\ Count(result[c].loader_tree_code, {"manifest"}) = 1

\* The entries of the root's icon array.
RootIconEntries(code) ==
    {j \in Positions(code, {"dynamic", "static_open"}) :
        /\ Depth(code, j) = 1
        /\ \E p \in Positions(code, {"items_open"}) :
              /\ p < j
              /\ code[p].name = "icon"
              /\ \A q \in Positions(code, {"items_open"}) : q < j => q <= p}

\* C7: when the global metadata carries a favicon and the root's own icon
\* list is empty, the root's icon array has exactly one entry, the favicon,
\* and no other segment has it.
C7_FaviconOnlyIcon ==
    \A c \in DOMAIN builder :
        LET tree == loader_tree[c]
            code == result[c].loader_tree_code
            favicons == FaviconEntries(result[c], tree)
        IN (/\ Done(c)
            /\ tree.global.favicon # None
            /\ LoaderTree(tree, Root).components.metadata.icon = <<>>)
           => /\ Cardinality(RootIconEntries(code)) = 1
              /\ Cardinality(favicons) = 1
              /\ \A j \in favicons : Depth(code, j) = 1

(***************************************************************************)
(* C8                                                                      *)
(***************************************************************************)

\* The keys of the k-th slots object of the text: the fragments between the
\* k-th "}, {" and the "}]" that follows it.
SlotKeys(code, k) ==
    LET p == Ascending(Positions(code, {"slots"}))[k]
        q == CHOOSE j \in Positions(code, {"close"}) :
                 j > p /\ \A i \in Positions(code, {"close"}) : i > p => j <= i
        keyed == SelectSeq(SubSeq(code, p + 1, q - 1),
                           LAMBDA tok : tok.t \in {"component", "metadata_open"})
    IN [j \in 1..Len(keyed) |->
          IF keyed[j].t = "metadata_open" THEN "metadata" ELSE keyed[j].name]

\* The keys a segment's slots object is to have, in the stated order, the
\* not-found slot spelled as given.
SlotKeysInOrder(components, notFound) ==
    LET slots == << <<"layout", components.layout>>, <<"page", components.page>>,
                    <<"defaultPage", components.default>>, <<"error", components.error>>,
                    <<"loading", components.loading>>, <<"template", components.template>>,
                    <<notFound, components.not_found>> >>
        present == SelectSeq(slots, LAMBDA slot : slot[2] # None)
    IN [j \in 1..Len(present) |-> StringifyJs(present[j][1])]
          \o (IF MetadataIsEmpty(components.metadata) THEN <<>> ELSE <<"metadata">>)

\* The slots objects close in post-order: the k-th belongs to the k-th
\* segment of the tree in post-order.
SlotKeysAre(c, notFound) ==
    LET tree == loader_tree[c]
        code == result[c].loader_tree_code
        order == Postorder(tree, Root)
    IN /\ Count(code, {"slots"}) = tree.n
       /\ \A k \in 1..tree.n :
             SlotKeys(code, k) =
                 SlotKeysInOrder(LoaderTree(tree, order[k]).components, notFound)

\* C8 as stated: the keys are layout, page, defaultPage, error, loading,
\* template, notFound, metadata.
C8_AsStated ==
    \A c \in DOMAIN builder : Done(c) => SlotKeysAre(c, "notFound")

\* C8, amended: in every segment's slots object each present slot appears
\* exactly once and absent slots not at all, under the keys and in the order
\* layout, page, defaultPage, error, loading, template, not-found, metadata.
C8_SlotKeyOrder ==
    \A c \in DOMAIN builder : Done(c) => SlotKeysAre(c, "not-found")

\* A returned text with a segment that has all eight keys and one that has
\* only some of them.
C8_Witness ==
    \E c \in DOMAIN builder :
        /\ Done(c)
        /\ loader_tree[c].n >= 2
        /\ \E k \in 1..loader_tree[c].n : Len(SlotKeys(result[c].loader_tree_code, k)) = 8
        /\ \E k \in 1..loader_tree[c].n : Len(SlotKeys(result[c].loader_tree_code, k)) = 4

(***************************************************************************)
(* C9                                                                      *)
(***************************************************************************)

\* The parts of a text: its fragments without their identifiers, a metadata
\* object reduced to its opening.
Parts(code) ==
    LET kept == SelectSeq(code, LAMBDA tok :
                    tok.t \in {"open", "key", "sep", "slots", "component",
                               "metadata_open", "close"})
    IN [j \in 1..Len(kept) |-> [t |-> kept[j].t, name |-> kept[j].name, a |-> kept[j].a]]

Part(t, nm, a) == [t |-> t, name |-> nm, a |-> a]

\* The component entries of a segment: its present slots with their paths.
ComponentParts(components) ==
    LET present == Ascending(PresentSlots(components))
    IN [j \in 1..Len(present) |->
          Part("component", StringifyJs(name(ComponentTypes[present[j]])),
               StringifyJs("[project]/"
                   \o ComponentOf(components, ComponentTypes[present[j]])[1]))]

\* The order of parts of a segment's literal: the opening with the label,
\* every child's key and complete literal, the slots object with the
\* segment's components and then its metadata, the closing.
RECURSIVE PartsInOrder(_, _), ChildPartsInOrder(_, _, _)
PartsInOrder(tree, m) ==
    LET node == LoaderTree(tree, m)
    IN <<Part("open", StringifyJs(node.segment), "")>>
         \o ChildPartsInOrder(tree, node.parallel_routes, 1)
         \o <<Part("slots", "", "")>>
         \o ComponentParts(node.components)
         \o (IF MetadataIsEmpty(node.components.metadata) THEN <<>>
             ELSE <<Part("metadata_open", "", "")>>)
         \o <<Part("close", "", "")>>
ChildPartsInOrder(tree, routes, j) ==
    IF j > Len(routes) THEN <<>>
    ELSE <<Part("key", StringifyJs(routes[j].key), "")>>
           \o PartsInOrder(tree, routes[j].child)
           \o <<Part("sep", "", "")>>
           \o ChildPartsInOrder(tree, routes, j + 1)

\* C9: in the returned text every segment reads: opening with the label, the
\* children object with each child's complete literal, the slots object with
\* the segment's own components and then its metadata, the closing; no
\* component of a segment stands before or inside its children's text.
C9_PartsInOrder ==
    \A c \in DOMAIN builder :
        Done(c) => Parts(result[c].loader_tree_code) = PartsInOrder(loader_tree[c], Root)

\* A returned text of a chain of three segments, each with components and
\* metadata.
C9_Witness ==
    \E c \in DOMAIN builder :
        /\ Done(c)
        /\ loader_tree[c].n = 3
        /\ loader_tree[c].parent[3] = 2
        /\ \A m \in 1..3 : loader_tree[c].kinds[m].meta # "empty"

(***************************************************************************)
(* C10                                                                     *)
(***************************************************************************)

\* The keys of the text, in order.
KeysWritten(code) ==
    LET keys == SelectSeq(code, LAMBDA tok : tok.t = "key")
    IN [j \in 1..Len(keys) |-> keys[j].name]

\* C10: the keys of the returned text are those of parallel_routes, each
\* child once, a node's children in the stored insertion order (each key is
\* followed by its whole subtree, so the keys read in pre-order), and as
\* many segments are opened as the tree has nodes.
C10_InsertionOrder ==
    \A c \in DOMAIN builder :
        Done(c) =>
            LET tree == loader_tree[c]
                order == Preorder(tree, Root)
            IN /\ KeysWritten(result[c].loader_tree_code)
                    = [j \in 1..(tree.n - 1) |-> StringifyJs(KeyOf(tree, order[j + 1]))]
               /\ Count(result[c].loader_tree_code, {"open"}) = tree.n

\* A returned text of a root whose two parallel routes are stored in an
\* order that is not the sorted one.
C10_Witness ==
    \E c \in DOMAIN builder :
        /\ Done(c)
        /\ loader_tree[c].order = "desc"
        /\ Len(LoaderTree(loader_tree[c], Root).parallel_routes) = 2
        /\ KeysWritten(result[c].loader_tree_code) = <<"\"slot3\"", "\"slot2\"">>

(***************************************************************************)
(* C11                                                                     *)
(***************************************************************************)

\* The compilation returned an error.
Failed(c) == result[c].status = "err"

C11_NoPartialOutput(c) ==
    /\ Failed(c) =>
          /\ result[c].imports = <<>> /\ result[c].loader_tree_code = <<>>
          /\ result[c].inner_assets = <<>> /\ result[c].pages = <<>>
          /\ builder[c] = Consumed(builder[c], "failed")
    /\ builder[c].pc = "failed" => Failed(c)
    /\ Done(c) <=> builder[c].pc = "done"

\* C11: when an await fails, at any point of the walk and also between the
\* take and the replace of the buffer, the compilation returns an error and
\* no LoaderTreeModule: the result carries no text, imports, manifest or
\* pages, the builder is gone, and from then on no step of that compilation
\* runs: nothing is emitted, nothing is retried, the error stays the result.
C11_FailureAborts ==
    /\ [](\A c \in DOMAIN builder : C11_NoPartialOutput(c))
    /\ [][\A c \in DOMAIN builder :
            Failed(c) => (result'[c] = result[c] /\ builder'[c] = builder[c])]_vars

\* A compilation failed between the take and the replace of the buffer of
\* a walk_tree call, and its builder is gone.
C11_Witness ==
    \E c \in DOMAIN builder :
        /\ Failed(c)
        /\ result[c].error = "components"
        /\ builder[c].pc = "failed"

(***************************************************************************)
(* C12                                                                     *)
(***************************************************************************)

\* The basePath a compilation was given.
BasePathOf(c) == builder[c].base_path

\* C12: two runs of LoaderTreeModule::build on the same tree and basePath,
\* each with a fresh builder, return the same text, the same imports in the
\* same order, the same manifest (keys in the same order, same modules) and
\* the same pages, however their steps interleave.
C12_Deterministic ==
    \A c, d \in DOMAIN builder :
        (/\ loader_tree[c] = loader_tree[d]
         /\ BasePathOf(c) = BasePathOf(d)
         /\ Done(c) /\ Done(d))
            => /\ result[c].loader_tree_code = result[d].loader_tree_code
               /\ result[c].imports = result[d].imports
               /\ result[c].inner_assets = result[d].inner_assets
               /\ result[c].pages = result[d].pages

\* Two runs on the same two-segment tree have both returned a module with
\* numbered imports, a page and a global error.
C12_Witness ==
    /\ DOMAIN builder = {1, 2}
    /\ loader_tree[1] = loader_tree[2]
    /\ loader_tree[1].n = 2
    /\ Done(1) /\ Done(2)
    /\ Len(result[1].imports) >= 3
    /\ result[1].pages # <<>>
    /\ \E e \in 1..Len(result[2].inner_assets) : result[2].inner_assets[e].key = GLOBAL_ERROR

(***************************************************************************)
(* C13                                                                     *)
(***************************************************************************)

\* The category of the array that the entry at fragment j belongs to.
CategoryAt(code, j) ==
    LET opens == {p \in Positions(code, {"items_open"}) : p < j}
    IN code[CHOOSE p \in opens : \A q \in opens : q <= p].name

\* The fields of the thunk opened at fragment j.
ThunkFields(code, j) ==
    LET close == CHOOSE q \in Positions(code, {"static_close"}) :
                    /\ q > j
                    /\ \A r \in Positions(code, {"static_close"}) : r > j => q <= r
    IN {code[k].t : k \in (j + 1)..(close - 1)}

\* C13: in the returned text every static metadata item of the twitter and
\* openGraph arrays has the fields width and height and no field sizes, and
\* every static item of the icon and apple arrays, the favicon merged into
\* icon included, has the field sizes and neither width nor height.
C13_CategoryFieldShape ==
    \A c \in DOMAIN builder :
        Done(c) =>
            LET code == result[c].loader_tree_code
            IN \A j \in Positions(code, {"static_open"}) :
                  LET fields == ThunkFields(code, j)
                  IN /\ CategoryAt(code, j) \in {"icon", "apple", "twitter", "openGraph"}
                     /\ CategoryAt(code, j) \in {"twitter", "openGraph"} =>
                           /\ {"width", "height"} \subseteq fields
                           /\ "sizes" \notin fields
                     /\ CategoryAt(code, j) \in {"icon", "apple"} =>
                           /\ "sizes" \in fields
                           /\ fields \cap {"width", "height"} = {}

\* A returned text with static items in all four arrays, the first of the
\* root's icon array being the static favicon.
C13_Witness ==
    \E c \in DOMAIN builder :
        /\ Done(c)
        /\ loader_tree[c].global.favicon # None
        /\ loader_tree[c].global.favicon[1].kind = "Static"
        /\ LET code == result[c].loader_tree_code
           IN /\ \A cat \in {"icon", "apple", "twitter", "openGraph"} :
                    \E j \in Positions(code, {"static_open"}) : CategoryAt(code, j) = cat
              /\ \E j \in Positions(code, {"static_open"}) :
                    /\ j \in RootIconEntries(code)
                    /\ code[j + 1].id \in FaviconIdentifiers(result[c], loader_tree[c])

(***************************************************************************)
(* C14                                                                     *)
(***************************************************************************)

\* The segments whose Metadata is not empty, in the order their literals
\* close.
SegmentsWithMetadata(tree) ==
    SelectSeq(Postorder(tree, Root),
              LAMBDA m : ~MetadataIsEmpty(LoaderTree(tree, m).components.metadata))

\* The fragments of the k-th metadata object of the text, both ends included.
MetadataObject(code, k) ==
    LET opens == Ascending(Positions(code, {"metadata_open"}))
        closes == Ascending(Positions(code, {"metadata_close"}))
    IN SubSeq(code, opens[k], closes[k])

\* The file the module bound to an identifier was made from.
SourceOf(out, identifier) ==
    LET imp == out.imports[CHOOSE j \in 1..Len(out.imports) :
                              out.imports[j].identifier = identifier]
    IN out.inner_assets[CHOOSE e \in 1..Len(out.inner_assets) :
                           out.inner_assets[e].key = imp.module_id].value.source

\* The arrays of a metadata object as written: each array's opening with its
\* category, each entry with its shape and its file, each array's end.
ArraysWritten(out, object) ==
    LET at == Ascending(Positions(object, {"items_open", "dynamic", "static_open",
                                           "items_close"}))
    IN [k \in 1..Len(at) |->
          LET tok == object[at[k]]
          IN CASE tok.t = "items_open" -> <<"items_open", tok.name>>
               [] tok.t = "dynamic" -> <<"Dynamic", SourceOf(out, tok.id)>>
               [] tok.t = "static_open" -> <<"Static", SourceOf(out, object[at[k] + 1].id)>>
               [] OTHER -> <<"items_close", "">>]

\* The four lists of segment m to emit, in the order of the categories.
ListsToEmit(tree, m) ==
    LET metadata == LoaderTree(tree, m).components.metadata
        favicon == IF m = Root THEN tree.global.favicon ELSE None
    IN << <<"icon", favicon \o metadata.icon>>,
          <<"apple", metadata.apple>>,
          <<"twitter", metadata.twitter>>,
          <<"openGraph", metadata.open_graph>> >>

\* The arrays the lists call for: none for an empty list, else the opening,
\* one entry per item in input order, the end.
ArraysExpected(lists) ==
    Flatten([k \in 1..Len(lists) |->
        IF lists[k][2] = <<>> THEN <<>>
        ELSE << <<"items_open", lists[k][1]>> >>
               \o [i \in 1..Len(lists[k][2]) |-> <<lists[k][2][i].kind, lists[k][2][i].path>>]
               \o << <<"items_close", "">> >>])

RECURSIVE ItemsToEmit(_, _)
ItemsToEmit(tree, k) ==
    LET segments == SegmentsWithMetadata(tree)
    IN IF k > Len(segments) THEN 0
       ELSE LET lists == ListsToEmit(tree, segments[k])
            IN Len(lists[1][2]) + Len(lists[2][2]) + Len(lists[3][2]) + Len(lists[4][2])
                 + ItemsToEmit(tree, k + 1)

\* C14: in the returned text each metadata object has, for each of icon,
\* apple, twitter and openGraph in this order, no key when the list to emit
\* is empty and else the key once with one entry per item in input order;
\* and the METADATA_<n> manifest entries are as many as the items to emit,
\* so nothing is allocated or imported for an empty list.
C14_CategoryArrays ==
    \A c \in DOMAIN builder :
        Done(c) =>
            LET tree == loader_tree[c]
                code == result[c].loader_tree_code
                segments == SegmentsWithMetadata(tree)
            IN /\ Count(code, {"metadata_open"}) = Len(segments)
               /\ \A k \in 1..Len(segments) :
                     ArraysWritten(result[c], MetadataObject(code, k))
                         = ArraysExpected(ListsToEmit(tree, segments[k]))
               /\ Cardinality({e \in 1..Len(result[c].inner_assets) :
                      result[c].inner_assets[e].value.via
                          \in {"StructuredImageModuleType", "dynamic_image_metadata_source"}})
                     = ItemsToEmit(tree, 1)

\* A returned text of a tree with a segment that declares only twitter
\* images (three empty lists) and a segment with several items in a list.
C14_Witness ==
    \E c \in DOMAIN builder :
        LET tree == loader_tree[c]
        IN /\ Done(c)
           /\ tree.n >= 2
           /\ tree.kinds[1].meta = "twitter"
           /\ tree.global.favicon = None
           /\ \E m \in 2..tree.n : tree.kinds[m].meta = "rich"
           /\ Count(result[c].loader_tree_code, {"items_open"}) >= 5

(***************************************************************************)
(* C15                                                                     *)
(***************************************************************************)

\* The route path write_metadata works with for segment m: the base_page of
\* its Metadata when it has one, else the page of the segment.
RoutePathOf(tree, m) ==
    LET node == LoaderTree(tree, m)
    IN IF node.components.metadata.base_page # None
       THEN node.components.metadata.base_page[1]
       ELSE node.page

\* The items to emit with their segment and category: <<m, category, item>>.
ItemsOf(tree) ==
    LET segments == SegmentsWithMetadata(tree)
    IN UNION {UNION {{<<segments[k], ListsToEmit(tree, segments[k])[l][1],
                        ListsToEmit(tree, segments[k])[l][2][i]>> :
                          i \in 1..Len(ListsToEmit(tree, segments[k])[l][2])} : l \in 1..4}
                : k \in 1..Len(segments)}

\* C15: for every dynamic metadata item the returned module has exactly one
\* manifest entry, METADATA_<n>, which is the metadata source module made
\* from the item's file, the category name and the segment's route path,
\* and exactly one import, naming it; the identifier of that import stands
\* once in the text, as a bare reference inside the category's array, and in
\* no url, sizes, width, height or alt field; the item took one number (the
\* numbers given out are the component slots plus the items), and a tree
\* without static items has no fillMetadataSegment import.
C15_DynamicItems ==
    \A c \in DOMAIN builder :
        Done(c) =>
            LET tree == loader_tree[c]
                out == result[c]
                code == out.loader_tree_code
                items == ItemsOf(tree)
            IN /\ \A x \in {y \in items : y[3].kind = "Dynamic"} :
                     LET module == Module("dynamic_image_metadata_source", x[3].path,
                                          x[2], RoutePathOf(tree, x[1]))
                         entries == {e \in 1..Len(out.inner_assets) :
                                       out.inner_assets[e].value.source = x[3].path}
                     IN /\ Cardinality(entries) = 1
                        /\ \A e \in entries :
                              /\ out.inner_assets[e].value = module
                              /\ \E n \in 0..(Allocated(c) - 1) :
                                    out.inner_assets[e].key = "METADATA_" \o ToString(n)
                              /\ LET naming == {j \in 1..Len(out.imports) :
                                        out.imports[j].module_id = out.inner_assets[e].key}
                                 IN /\ Cardinality(naming) = 1
                                    /\ \A j \in naming :
                                          LET uses == {p \in 1..Len(code) :
                                                         code[p].id = out.imports[j].identifier}
                                          IN /\ Cardinality(uses) = 1
                                             /\ \A p \in uses :
                                                   /\ code[p].t = "dynamic"
                                                   /\ CategoryAt(code, p) = x[2]
               /\ Count(code, {"dynamic"}) = Cardinality({y \in items : y[3].kind = "Dynamic"})
               /\ Allocated(c) = ComponentSlotsPresent(tree, 1) + Cardinality(items)
               /\ (\A y \in items : y[3].kind = "Dynamic") =>
                     \A j \in 1..Len(out.imports) : out.imports[j] # helper_import

\* A returned module of a tree whose only items are dynamic: the favicon and
\* the twitter image of a root whose Metadata has a base_page.
C15_Witness ==
    \E c \in DOMAIN builder :
        LET tree == loader_tree[c]
        IN /\ Done(c)
           /\ tree.kinds[1].meta = "twitter"
           /\ tree.global.favicon # None
           /\ \A y \in ItemsOf(tree) : y[3].kind = "Dynamic"
           /\ Count(result[c].loader_tree_code, {"dynamic"}) >= 2
           /\ RoutePathOf(tree, 1) # LoaderTree(tree, 1).page

(***************************************************************************)
(* C16                                                                     *)
(***************************************************************************)

\* build has passed the registration of the global error.
Registered(c) == builder[c].pc = "walk" \/ Done(c)

\* The manifest entries under the reserved name.
GlobalErrorEntries(assets) == {e \in 1..Len(assets) : assets[e].key = "GLOBAL_ERROR_MODULE"}

\* C16: once build has passed the registration, the manifest has the key
\* GLOBAL_ERROR_MODULE if and only if the root's Components carry a global
\* error; the entry is then the module of the root's global error file, the
\* only one under that name and the first of the manifest. The registration
\* takes no number, adds no import and writes no text: the walk starts with
\* counter 0, no import and an empty buffer. No import names the entry, and
\* the global error of a segment other than the root makes no entry and no
\* text.
C16_GlobalError ==
    \A c \in DOMAIN builder :
        Registered(c) =>
            LET tree == loader_tree[c]
                out == Output(c)
                entries == GlobalErrorEntries(out.inner_assets)
                global_error == LoaderTree(tree, Root).components.global_error
            IN /\ entries # {} <=> global_error # None
               /\ entries \subseteq {1}
               /\ \A e \in entries :
                     out.inner_assets[e].value = process_module(global_error[1])
               /\ \A j \in 1..Len(out.imports) :
                     out.imports[j].module_id # "GLOBAL_ERROR_MODULE"
               /\ (builder[c].pc = "walk" /\ Len(builder[c].stack) = 1
                      /\ Top(builder[c]).pc = "enter") =>
                     /\ builder[c].counter = 0
                     /\ builder[c].imports = <<>>
                     /\ builder[c].loader_tree_code = <<>>
                     /\ builder[c].pages = <<>>
                     /\ Len(builder[c].inner_assets) = Cardinality(entries)
               /\ \A m \in 2..tree.n :
                     LET other == LoaderTree(tree, m).components.global_error
                     IN other # None =>
                          /\ \A e \in 1..Len(out.inner_assets) :
                                out.inner_assets[e].value.source # other[1]
                          /\ \A p \in 1..Len(out.loader_tree_code) :
                                out.loader_tree_code[p].a
                                    # StringifyJs(ModulePath(process_module(other[1])))
               /\ \A p \in 1..Len(out.loader_tree_code) :
                     global_error # None =>
                        out.loader_tree_code[p].a
                            # StringifyJs(ModulePath(process_module(global_error[1])))

\* A returned module whose manifest starts with the root's global error,
\* of a tree in which another segment has a global error file too.
C16_Witness ==
    \E c \in DOMAIN builder :
        LET tree == loader_tree[c]
        IN /\ Done(c)
           /\ tree.n >= 2
           /\ LoaderTree(tree, Root).components.global_error # None
           /\ \E m \in 2..tree.n : LoaderTree(tree, m).components.global_error # None
           /\ result[c].inner_assets[1].key = GLOBAL_ERROR
           /\ Len(result[c].inner_assets) > 2

(***************************************************************************)
(* C17                                                                     *)
(***************************************************************************)

\* The step a builder takes next when none of its awaits fails.
Step(s, tree) ==
    IF s.pc = "build" THEN build(s, tree)
    ELSE LET f == Top(s)
             routes == LoaderTree(tree, f.node).parallel_routes
         IN CASE f.pc = "enter" -> walk_tree_enter(s, tree)
              [] f.pc = "components" -> walk_tree_components(s, tree)
              [] f.pc = "restore" -> walk_tree_restore(s)
              [] f.pc = "children" /\ f.child <= Len(routes) -> walk_tree_child(s, tree)
              [] f.pc = "children" /\ f.child > Len(routes) -> walk_tree_slots(s)
              [] f.pc = "returned" -> walk_tree_child_returned(s)
              [] f.pc = "metadata" -> walk_tree_metadata(s, tree)
              [] f.pc = "close" -> walk_tree_return(s)

\* LoaderTreeBuilder::build run from s to its end without interruption.
RECURSIVE Run(_, _)
Run(s, tree) ==
    IF s.pc = "walk" /\ s.stack = <<>> THEN s ELSE Run(Step(s, tree), tree)

\* LoaderTreeModule::build(tree, base_path) run alone.
Alone(tree, base_path) == LoaderTreeModule(Run(new(base_path), tree))

\* C17: two compilations whose steps interleave at their awaits do not
\* influence each other: every step changes the builder and the result of
\* one compilation only, each builder's counter is 0 until its own walk
\* starts, and the module a compilation returns is the one the same call
\* returns when it runs alone.
C17_Independent ==
    /\ [](\A c \in DOMAIN builder :
            /\ Done(c) => result[c] = Alone(loader_tree[c], BasePathOf(c))
            /\ (builder[c].pc = "build"
                   \/ (builder[c].pc = "walk" /\ Len(builder[c].stack) = 1
                         /\ Top(builder[c]).pc = "enter")) =>
                  builder[c].counter = 0)
    /\ [][\A c, d \in DOMAIN builder :
            c # d => \/ (builder'[c] = builder[c] /\ result'[c] = result[c])
                     \/ (builder'[d] = builder[d] /\ result'[d] = result[d])]_vars

\* Two compilations of different trees are both in the middle of their
\* walks, each having given out numbers, written text and collected a page.
C17_Witness ==
    /\ DOMAIN builder = {1, 2}
    /\ loader_tree[1] # loader_tree[2]
    /\ \A c \in {1, 2} :
          /\ builder[c].pc = "walk"
          /\ Len(builder[c].stack) = 1
          /\ Top(builder[c]).pc = "close"
          /\ builder[c].counter >= 2
          /\ builder[c].pages # <<>>
    /\ builder[1].counter # builder[2].counter

(***************************************************************************)
(* C18                                                                     *)
(***************************************************************************)

\* The number in the manifest name of the metadata item made from a file.
NumberOf(out, path) ==
    CHOOSE n \in 0..Len(out.imports) :
        \E e \in 1..Len(out.inner_assets) :
            /\ out.inner_assets[e].key = "METADATA_" \o ToString(n)
            /\ out.inner_assets[e].value.source = path

\* C18: when the root's Metadata is not empty and the global metadata has a
\* favicon, the icon array of the root's metadata object starts with the
\* favicon, has it once, and continues with the root's own icon items in
\* their input order; the favicon's number is smaller than that of every
\* other icon item of the root; and the favicon has no alt field and no
\* METADATA_ALT entry, also when it is static.
C18_FaviconFirst ==
    \A c \in DOMAIN builder :
        LET tree == loader_tree[c]
            out == result[c]
            code == out.loader_tree_code
            metadata == LoaderTree(tree, Root).components.metadata
        IN (/\ Done(c)
            /\ ~MetadataIsEmpty(metadata)
            /\ tree.global.favicon # None)
           => LET favicon == tree.global.favicon[1]
                  object == MetadataObject(code, Count(code, {"metadata_open"}))
                  arrays == ArraysWritten(out, object)
                  n == NumberOf(out, favicon.path)
              IN /\ Len(arrays) >= Len(metadata.icon) + 3
                 /\ arrays[1] = <<"items_open", "icon">>
                 /\ arrays[2] = <<favicon.kind, favicon.path>>
                 /\ \A i \in 1..Len(metadata.icon) :
                       /\ arrays[2 + i] = <<metadata.icon[i].kind, metadata.icon[i].path>>
                       /\ n < NumberOf(out, metadata.icon[i].path)
                 /\ arrays[Len(metadata.icon) + 3] = <<"items_close", "">>
                 /\ Cardinality(FaviconEntries(out, tree)) = 1
                 /\ \A j \in Positions(code, {"static_open"}) :
                       code[j + 1].id \in FaviconIdentifiers(out, tree)
                           => "alt" \notin ThunkFields(code, j)
                 /\ \A e \in 1..Len(out.inner_assets) :
                       out.inner_assets[e].key # "METADATA_ALT_" \o ToString(n)

\* A returned module of a tree whose root has icon items of its own, with
\* the static favicon, and whose root's other static items have alt texts.
C18_Witness ==
    \E c \in DOMAIN builder :
        LET tree == loader_tree[c]
        IN /\ Done(c)
           /\ tree.global.favicon # None
           /\ tree.global.favicon[1].kind = "Static"
           /\ Len(LoaderTree(tree, Root).components.metadata.icon) = 2
           /\ Cardinality(RootIconEntries(result[c].loader_tree_code)) = 3
           /\ Count(result[c].loader_tree_code, {"alt"}) >= 2

(***************************************************************************)
(* C19                                                                     *)
(***************************************************************************)

Walked(c) == builder[c].pc = "walk" /\ builder[c].stack = <<>>

\* The manifest entries with a given name.
Named(assets, key) == {e \in 1..Len(assets) : assets[e].key = key}

\* C20: when the walk has returned, every static metadata item has taken
\* one number i and has one manifest entry METADATA_<i>; if its alt text
\* file is present there is one more entry, METADATA_ALT_<i> with the same
\* i, made from the alt file as text, one import naming it, and an alt
\* field in the item's thunk; if it is absent there is no such entry, no
\* such import and no alt field. The alt text takes no number: the counter
\* is the number of component slots and metadata items, and the manifest
\* has one entry per number, one per alt text and the global error's.
C20_AltText ==
    \A c \in DOMAIN builder :
        Walked(c) =>
            LET tree == loader_tree[c]
                s == builder[c]
                code == s.loader_tree_code
                items == ItemsOf(tree)
                withAlt == {y \in items : y[3].kind = "Static" /\ y[3].alt_path # None}
            IN /\ \A x \in {y \in items : y[3].kind = "Static"} :
                     LET i == NumberOf(s, x[3].path)
                         alt == Named(s.inner_assets, "METADATA_ALT_" \o ToString(i))
                         altImports == {j \in 1..Len(s.imports) :
                                          s.imports[j].module_id = "METADATA_ALT_" \o ToString(i)}
                         thunk == CHOOSE j \in Positions(code, {"static_open"}) :
                                     SourceOf(s, code[j + 1].id) = x[3].path
                     IN /\ i < s.counter
                        /\ Cardinality(Named(s.inner_assets, "METADATA_" \o ToString(i))) = 1
                        /\ IF x[3].alt_path # None
                           THEN /\ Cardinality(alt) = 1
                                /\ \A e \in alt :
                                      s.inner_assets[e].value
                                         = Module("TextContentFileSource", x[3].alt_path[1], "", "")
                                /\ Cardinality(altImports) = 1
                                /\ \A j \in altImports :
                                      /\ s.imports[j].identifier
                                            = mangle(x[2] \o " alt text #" \o ToString(i))
                                      /\ \E p \in Positions(code, {"alt"}) :
                                            /\ code[p].id = s.imports[j].identifier
                                            /\ p > thunk
                                            /\ "static_close" \notin
                                                  {code[q].t : q \in thunk..p}
                                /\ "alt" \in ThunkFields(code, thunk)
                           ELSE /\ alt = {}
                                /\ altImports = {}
                                /\ "alt" \notin ThunkFields(code, thunk)
               /\ s.counter = ComponentSlotsPresent(tree, 1) + Cardinality(items)
               /\ Count(code, {"alt"}) = Cardinality(withAlt)
               /\ Len(s.inner_assets)
                     = s.counter + Cardinality(withAlt)
                         + Cardinality(GlobalErrorEntries(s.inner_assets))

\* The walk has returned over a tree with static items with an alt text and
\* static items without.
C20_Witness ==
    \E c \in DOMAIN builder :
        /\ Walked(c)
        /\ \E y \in ItemsOf(loader_tree[c]) : y[3].kind = "Static" /\ y[3].alt_path # None
        /\ \E y \in ItemsOf(loader_tree[c]) : y[3].kind = "Static" /\ y[3].alt_path = None
        /\ Count(builder[c].loader_tree_code, {"alt"}) >= 2
        /\ Count(builder[c].loader_tree_code, {"static_open"}) >= 4

(***************************************************************************)
(* C21                                                                     *)
(***************************************************************************)

\* The imports of static metadata items: those naming a manifest entry made
\* by the structured image module type.
StaticImports(out) ==
    {j \in 1..Len(out.imports) :
        \E e \in 1..Len(out.inner_assets) :
            /\ out.inner_assets[e].key = out.imports[j].module_id
            /\ out.inner_assets[e].value.via = "StructuredImageModuleType"}

\* C21: in the returned import list the fillMetadataSegment helper import
\* stands at most once, and stands there if and only if a static metadata
\* item was emitted, directly before the import of the first static item;
\* the other imports stand in the order of their numbers, the k-th of them
\* carrying the number k - 1, and the import of an alt text stands directly
\* after the import of its image, METADATA_ALT_<i> after METADATA_<i>.
C21_ImportOrder ==
    \A c \in DOMAIN builder :
        Done(c) =>
            LET out == result[c]
                imports == out.imports
                helpers == {j \in 1..Len(imports) : imports[j] = helper_import}
                statics == StaticImports(out)
                numbered == NumberedImports(imports)
            IN /\ Cardinality(helpers) <= 1
               /\ helpers # {} <=> statics # {}
               /\ \A h \in helpers :
                     /\ h + 1 \in statics
                     /\ \A j \in statics : j > h
               /\ \A k \in 1..Len(numbered) :
                     numbered[k].module_id
                         \in {"COMPONENT_" \o ToString(k - 1), "METADATA_" \o ToString(k - 1)}
               /\ \A j \in 1..Len(imports) :
                     \A i \in 0..Len(imports) :
                        imports[j].module_id = "METADATA_ALT_" \o ToString(i) =>
                           /\ j > 1
                           /\ imports[j - 1].module_id = "METADATA_" \o ToString(i)
                           /\ j - 1 \in statics

\* A returned import list with component imports first, then the helper,
\* several static items, an alt text and a dynamic item.
C21_Witness ==
    \E c \in DOMAIN builder :
        /\ Done(c)
        /\ LET imports == result[c].imports
           IN /\ Cardinality(StaticImports(result[c])) >= 3
              /\ \E h \in 3..Len(imports) : imports[h] = helper_import
              /\ \E j \in 1..Len(imports) : IsAltImport(imports, imports[j])
              /\ Count(result[c].loader_tree_code, {"dynamic"}) >= 1

(***************************************************************************)
(* C22                                                                     *)
(***************************************************************************)

\* Segment m has no parallel routes, no component file and an empty Metadata.
Bare(tree, m) ==
    LET node == LoaderTree(tree, m)
    IN /\ node.parallel_routes = <<>>
       /\ PresentSlots(node.components) = {}
       /\ MetadataIsEmpty(node.components.metadata)

\* In the returned text the k-th opening belongs to the k-th segment in
\* pre-order; a bare segment's literal is its opening with the segment
\* label, the end of the empty children object with the start of the empty
\* slots object, and its closing, and nothing else.
C22_Literal(c) ==
    Done(c) =>
        LET tree == loader_tree[c]
            code == result[c].loader_tree_code
            order == Preorder(tree, Root)
            opens == Ascending(Positions(code, {"open"}))
        IN /\ Len(opens) = Len(order)
           /\ \A k \in 1..Len(order) :
                 Bare(tree, order[k]) =>
                    /\ code[opens[k]]
                          = Tok("open", StringifyJs(LoaderTree(tree, order[k]).segment), "", "", "")
                    /\ code[opens[k] + 1] = Tok("slots", "", "", "", "")
                    /\ code[opens[k] + 2] = Tok("close", "", "", "", "")

\* C22: a segment with no parallel routes, no component file and an empty
\* Metadata is not skipped: the returned text has its literal, made of the
\* opening with its label, an empty children object, an empty slots object
\* and the closing; and while walk_tree works on it no number is given out
\* and no import, manifest entry or page is added.
C22_BareSegment ==
    /\ [](\A c \in DOMAIN builder : C22_Literal(c))
    /\ [][\A c \in DOMAIN builder :
            (/\ Walking(c)
             /\ Bare(loader_tree[c], Top(builder[c]).node)
             /\ builder'[c].pc = "walk")
                => /\ builder'[c].counter = builder[c].counter
                   /\ builder'[c].imports = builder[c].imports
                   /\ builder'[c].inner_assets = builder[c].inner_assets
                   /\ builder'[c].pages = builder[c].pages]_vars

\* A returned text of a tree whose root has files and metadata and one of
\* whose other segments is bare.
C22_Witness ==
    \E c \in DOMAIN builder :
        LET tree == loader_tree[c]
        IN /\ Done(c)
           /\ tree.n >= 2
           /\ ~Bare(tree, Root)
           /\ \E m \in 2..tree.n : Bare(tree, m)
           /\ Len(result[c].imports) >= 2
           /\ Count(result[c].loader_tree_code, {"open"}) = tree.n

(***************************************************************************)
(* C23                                                                     *)
(***************************************************************************)

\* The component files of segment m.
ComponentFiles(tree, m) ==
    LET components == LoaderTree(tree, m).components
    IN {ComponentOf(components, ComponentTypes[k])[1] : k \in PresentSlots(components)}

\* The segments below m.
Descendants(tree, m) ==
    LET order == Preorder(tree, m)
    IN {order[k] : k \in 2..Len(order)}

\* For every import, by its place in the list: the file its module was made
\* from, the number in its module's name and the places of the text that
\* refer to it; nothing for the helper import and the alt texts.
ImportTable(out) ==
    LET n == Len(out.imports)
    IN SubSeq([j \in 1..n |->
          LET imp == out.imports[j]
              entries == {e \in 1..Len(out.inner_assets) :
                            /\ out.inner_assets[e].key = imp.module_id
                            /\ out.inner_assets[e].value.via # "TextContentFileSource"}
          IN [files |-> {out.inner_assets[e].value.source : e \in entries},
              numbers |-> {k \in 0..n :
                             imp.module_id \in {"COMPONENT_" \o ToString(k),
                                                "METADATA_" \o ToString(k)}},
              text |-> {p \in 1..Len(out.loader_tree_code) :
                          /\ out.loader_tree_code[p].t \in {"component", "dynamic", "url"}
                          /\ out.loader_tree_code[p].id = imp.identifier}]], 1, n)

\* For every segment: its component files, the files of its metadata items
\* and the files of the segments below it.
FileTable(tree) ==
    LET items == ItemsOf(tree)
        of == SubSeq([m \in 1..tree.n |->
                        ComponentFiles(tree, m)
                           \cup {x[3].path : x \in {y \in items : y[1] = m}}], 1, tree.n)
    IN SubSeq([m \in 1..tree.n |->
                  [own |-> ComponentFiles(tree, m),
                   meta |-> of[m] \ ComponentFiles(tree, m),
                   below |-> UNION {of[d] : d \in Descendants(tree, m)}]], 1, tree.n)

\* Import i with its number comes before import j with its number.
C23_Before(table, i, j) ==
    /\ i < j
    /\ \A k \in table[i].numbers : \A l \in table[j].numbers : k < l

\* What the text has of import i stands after what it has of import j.
C23_TextAfter(table, i, j) ==
    \A p \in table[i].text : \A q \in table[j].text : p > q

C23_Holds(tree, table, files) ==
    /\ \A m \in 1..tree.n : \A f \in files[m].own \cup files[m].meta :
          /\ Cardinality({j \in 1..Len(table) : f \in table[j].files}) = 1
          /\ \A j \in 1..Len(table) :
                f \in table[j].files =>
                   /\ Cardinality(table[j].numbers) = 1
                   /\ Cardinality(table[j].text) = 1
    /\ \A m \in 1..tree.n : \A i, j \in 1..Len(table) :
          /\ (table[i].files \cap files[m].own # {} /\ table[j].files \cap files[m].below # {})
                => C23_Before(table, i, j) /\ C23_TextAfter(table, i, j)
          /\ (/\ table[i].files \cap files[m].meta # {}
              /\ table[j].files \cap (files[m].below \cup files[m].own) # {})
                => C23_Before(table, j, i) /\ C23_TextAfter(table, i, j)

\* C23: in the returned module every component and every metadata item has
\* one number, one import and one place in the text, and for every segment
\* the numbers and imports of its own components come before those of all
\* segments below it, and those of its own metadata items after them: the
\* components took effect before the children were walked and the metadata
\* after. In the text it is the other way round for the components: they
\* stand after everything of the segments below.
C23_EffectOrder ==
    \A c \in DOMAIN builder :
        Done(c) => C23_Holds(loader_tree[c], ImportTable(result[c]), FileTable(loader_tree[c]))

\* A returned module of a chain of three segments, each with component
\* files and metadata items.
C23_Witness ==
    \E c \in DOMAIN builder :
        LET tree == loader_tree[c]
        IN /\ Done(c)
           /\ tree.n = 3
           /\ Descendants(tree, 1) = {2, 3} /\ Descendants(tree, 2) = {3}
           /\ \A m \in 1..3 :
                 /\ ComponentFiles(tree, m) # {}
                 /\ \E x \in ItemsOf(tree) : x[1] = m
           /\ result[c].pages # <<>>

(***************************************************************************)
(* C24                                                                     *)
(***************************************************************************)

IsPrefix(a, b) == Len(a) <= Len(b) /\ SubSeq(b, 1, Len(a)) = a

\* The running walk_tree call has taken the buffer and not put it back.
Swapped(s) == s.pc = "walk" /\ s.stack # <<>> /\ Top(s).pc \in {"components", "restore"}

\* The program text written so far: the taken buffer during the swap, else
\* the builder's buffer.
TextSoFar(s) == IF Swapped(s) THEN Top(s).temp_loader_tree_code ELSE s.loader_tree_code

\* What one step of the walk of a builder does to the buffers.
C24_Step(s, t) ==
    (s.pc = "walk" /\ t.pc = "walk") =>
        /\ IsPrefix(TextSoFar(s), TextSoFar(t))
        /\ (~Swapped(s) /\ Swapped(t)) =>
              /\ t.loader_tree_code = <<>>
              /\ Len(TextSoFar(t)) = Len(s.loader_tree_code) + 1
        /\ (Swapped(s) /\ Swapped(t)) =>
              /\ TextSoFar(t) = TextSoFar(s)
              /\ \A p \in 1..Len(t.loader_tree_code) : t.loader_tree_code[p].t = "component"
        /\ (Swapped(s) /\ ~Swapped(t)) =>
              /\ t.loader_tree_code = Top(s).temp_loader_tree_code
              /\ Top(t).components_code = s.loader_tree_code
        /\ (/\ s.stack # <<>> /\ Top(s).pc = "children"
            /\ Len(t.stack) = Len(s.stack) /\ Top(t).pc = "metadata") =>
              t.loader_tree_code
                 = Append(s.loader_tree_code, Tok("slots", "", "", "", ""))
                      \o Top(s).components_code

\* C24: the swap of buffers in walk_tree loses nothing and doubles nothing.
\* Step by step, and so over every walk_tree call that returns, the text
\* written before stays an unchanged prefix of the text written so far;
\* during the swap the builder's buffer holds only what write_component
\* writes; when the buffer is put back it holds exactly the text taken, and
\* what the components wrote is kept and appended once after the children;
\* in the returned text every such fragment stands exactly once.
C24_BufferSwap ==
    /\ [][\A c \in DOMAIN builder : C24_Step(builder[c], builder'[c])]_vars
    /\ [](\A c \in DOMAIN builder :
            Done(c) =>
               LET code == result[c].loader_tree_code
                   at == Positions(code, {"component"})
               IN /\ Cardinality(at) = ComponentSlotsPresent(loader_tree[c], 1)
                  /\ \A p, q \in at : p # q => code[p].id # code[q].id)

\* The walk_tree call of a segment below the root has just put the buffer
\* back: it holds the text of the segments above, and what the components
\* wrote is kept aside.
C24_Witness ==
    \E c \in DOMAIN builder :
        /\ builder[c].pc = "walk"
        /\ Len(builder[c].stack) = 2
        /\ Top(builder[c]).pc = "children"
        /\ Top(builder[c]).child = 1
        /\ Len(Top(builder[c]).components_code) >= 2
        /\ Len(builder[c].loader_tree_code) >= 3
        /\ builder[c].loader_tree_code[Len(builder[c].loader_tree_code)].t = "open"

(***************************************************************************)
(* C25                                                                     *)
(***************************************************************************)

\* The walk_tree calls in progress: the outermost is on the root with root
\* = true, every other is on a parallel route of its caller's segment with
\* root = false.
C25_Calls(c) ==
    LET stack == builder[c].stack
        tree == loader_tree[c]
    IN \A k \in 1..Len(stack) :
          /\ stack[k].root <=> k = 1
          /\ k = 1 => stack[k].node = Root
          /\ k > 1 => /\ stack[k].node # Root
                      /\ tree.parent[stack[k].node] = stack[k - 1].node

\* The openings and closings of a returned text: one of each per segment,
\* the openings in pre-order with the segments' labels, and every closing
\* that of the literal opened last and not yet closed, the root's being the
\* last fragment.
C25_Visits(c) ==
    LET tree == loader_tree[c]
        code == result[c].loader_tree_code
        order == Preorder(tree, Root)
        opens == Ascending(Positions(code, {"open"}))
        depth == SubSeq([p \in 1..Len(code) |->
                            Count(SubSeq(code, 1, p), {"open"})
                               - Count(SubSeq(code, 1, p), {"close"})], 1, Len(code))
    IN /\ Len(opens) = tree.n
       /\ Count(code, {"close"}) = tree.n
       /\ \A k \in 1..tree.n :
             code[opens[k]].name = StringifyJs(LoaderTree(tree, order[k]).segment)
       /\ \A p \in 1..Len(code) : depth[p] >= 0 /\ (depth[p] = 0 <=> p = Len(code))
       /\ code[1].t = "open" /\ code[Len(code)].t = "close"

\* C25: when no await fails, the walk of every tree ends and build returns
\* a module; the text has one opening and one closing per segment, nested
\* as the tree is, so every segment was visited once; while the walk runs
\* no more openings are written than the tree has segments; and the root is
\* walked with root = true, every other segment with root = false.
C25_Terminates ==
    /\ <>(\A c \in DOMAIN builder : Done(c))
    /\ [](\A c \in DOMAIN builder :
            /\ C25_Calls(c)
            /\ builder[c].pc = "walk" =>
                  Count(TextSoFar(builder[c]), {"open"}) <= loader_tree[c].n
            /\ Done(c) => C25_Visits(c))

\* A returned module of a tree of three segments, two of them parallel
\* routes of the root.
C25_Witness ==
    \E c \in DOMAIN builder :
        /\ Done(c)
        /\ loader_tree[c].n = 3
        /\ Len(LoaderTree(loader_tree[c], Root).parallel_routes) = 2
        /\ Count(result[c].loader_tree_code, {"open"}) = 3
        /\ Count(result[c].loader_tree_code, {"close"}) = 3

====
